---- MODULE Spec2Model ----
(***************************************************************************)
(* Thalia (textual-gittui): the binding resolver of binding_loader.py and  *)
(* config.py, and the dashboard screen of tui/screens/dashboard.py with    *)
(* its recent-repository cache (the Repositories table of tui/app.py).     *)
(*                                                                         *)
(* Two specifications share the variables:                                 *)
(*   SpecBindings  settings load + include_bindings(field)                 *)
(*   Spec          the application run: start-up (from the command line of *)
(*                 cli.py, or Thalia built with a connection), listing of  *)
(*                 recent repositories, the open / create / clone flows,   *)
(*                 the clone worker thread and its progress callbacks      *)
(*                                                                         *)
(* A Python str is modelled as a sequence of glyphs.  A glyph is a single  *)
(* character ("q", "+", " ", ",", ".") or an opaque run of several         *)
(* characters that holds no separator and no white space ("ctrl",          *)
(* "dashboard", "plus").  split, strip and join work glyph by glyph, as    *)
(* the str methods work character by character.                            *)
(***************************************************************************)
EXTENDS Integers, Sequences, FiniteSets, TLC

VARIABLES
    \* ---- binding resolver (SpecBindings) ----
    bpc,            \* "start" | "loaded" | "resolved"
    configured,     \* the list of BindingTypeModel the configuration gives
    settings,       \* the validated settings tree (conf.Settings())
    field,          \* the argument of the last include_bindings call
    result,         \* what that call did: [exc, returned, value]
    \* ---- application run (Spec) ----
    pc,             \* where the UI task is
    table,          \* rows of Repositories: [Path, last_accessed]
    now,            \* the clock, strftime('%s','now')
    fs,             \* what each path is on disk
    dbOk,           \* FALSE: the storage engine raises OperationalError
    screens,        \* the screen stack, bottom first
    notifications,  \* toasts raised since the current user action began
    escaped,        \* the exception that left a handler, or "none"
    recent,         \* paths yielded by fetch_recent_repos (the ListView)
    rows,           \* query.fetchall() of the listing in progress
    idx,            \* position of the listing in rows
    to_rm,          \* paths the listing collected for deletion
    arg,            \* the path the flow in progress is about
    thread,         \* the clone worker thread
    task,           \* clone_task
    dismissed,      \* what the last modal was dismissed with
    dismissals,     \* dismiss() calls made by the modal handler that just ran
    bar,            \* the ProgressBar of the clone progress modal
    backend_on,     \* the thread that ran the last Git backend call
    ctx_obj         \* ctx.obj of the command line group, while it starts

bvars == <<bpc, configured, settings, field, result>>
avars == <<pc, table, now, fs, dbOk, screens, notifications, escaped, recent,
           rows, idx, to_rm, arg, thread, task, dismissed, dismissals, bar,
           backend_on, ctx_obj>>
vars == <<bpc, configured, settings, field, result,
          pc, table, now, fs, dbOk, screens, notifications, escaped, recent,
          rows, idx, to_rm, arg, thread, task, dismissed, dismissals, bar,
          backend_on, ctx_obj>>

(***************************************************************************)
(* Bounds                                                                  *)
(***************************************************************************)
MaxBindings == 2
MaxTime == 2
MaxObjects == 1

(***************************************************************************)
(* str helpers                                                             *)
(***************************************************************************)
SingleChars == {"q", "c", "+", " ", ",", "."}

\* len(s) == 1
PyLenIsOne(s) == Len(s) = 1 /\ s[1] \in SingleChars

RECURSIVE LStrip(_)
LStrip(s) == IF s = <<>> THEN s
             ELSE IF Head(s) = " " THEN LStrip(Tail(s)) ELSE s

RECURSIVE RStrip(_)
RStrip(s) == IF s = <<>> THEN s
             ELSE IF s[Len(s)] = " " THEN RStrip(SubSeq(s, 1, Len(s) - 1)) ELSE s

\* str.strip()
Strip(s) == RStrip(LStrip(s))

RECURSIVE SplitAcc(_, _, _, _)
SplitAcc(s, sep, cur, acc) ==
    IF s = <<>> THEN Append(acc, cur)
    ELSE IF Head(s) = sep THEN SplitAcc(Tail(s), sep, <<>>, Append(acc, cur))
    ELSE SplitAcc(Tail(s), sep, Append(cur, Head(s)), acc)

\* str.split(sep): "".split(sep) is [""], "a,".split(",") is ["a", ""]
Split(s, sep) == SplitAcc(s, sep, <<>>, <<>>)

RECURSIVE Join(_, _)
\* sep.join(parts)
Join(parts, sep) ==
    IF parts = <<>> THEN <<>>
    ELSE IF Len(parts) = 1 THEN parts[1]
    ELSE parts[1] \o <<sep>> \o Join(Tail(parts), sep)

\* textual.keys._character_to_key for the characters of the model: an
\* alphanumeric character is its own key name, "+" is named "plus".
CharacterToKey(key) == IF key = <<"+">> THEN <<"plus">> ELSE key

(***************************************************************************)
(* config.py: the action registries                                        *)
(***************************************************************************)
DashboardActions == [open_repo |-> "Open Repository",
                     clone_repo |-> "Clone Repository",
                     create_repo |-> "Create Repository"]

WorkspaceActions == [amend_commit |-> "Amend Last Commit",
                     commit |-> "Commit Changes",
                     push |-> "Push Changes",
                     pull |-> "Pull Changes",
                     stash |-> "Stash Changes",
                     ignore |-> "Ignore File",
                     open_file |-> "Open File",
                     branch_manager |-> "Open Branch Manager",
                     stash_manager |-> "Open Stash Manager"]

GlobalActions == [quit |-> "Quit the app"]

\* cls._actions of the ScreenBindings subclass of a context
Registry(ctx) == CASE ctx = "dashboard" -> DashboardActions
                   [] ctx = "workspace" -> WorkspaceActions
                   [] OTHER -> GlobalActions

(***************************************************************************)
(* The configurations the model draws from                                 *)
(***************************************************************************)
KeyChoices ==
    { [tuple |-> FALSE, parts |-> << <<"q">> >>],                     \* "q"
      [tuple |-> FALSE, parts |-> << <<>> >>],                        \* ""
      [tuple |-> FALSE, parts |-> << <<" ", "+">> >>],               \* " +"
      [tuple |-> FALSE,
       parts |-> << <<"q", ",", "ctrl", "+", "c">> >>],            \* "q,ctrl+c"
      [tuple |-> TRUE, parts |-> << <<"q">>, <<"ctrl", "+", "c">> >>],
      [tuple |-> TRUE, parts |-> << <<"q">>, <<" ">>, <<"+">> >>],
      [tuple |-> TRUE,
       parts |-> << <<"+">>, <<"q">>, <<"ctrl", "+", "c">> >>] }

ActionChoices == {"", "quit", "open_repo"}

\* BindingTypeModel
BindingTypeModel == [key : KeyChoices, action : ActionChoices, show : BOOLEAN]

Configs == UNION { [1..n -> BindingTypeModel] : n \in 0..MaxBindings }

(***************************************************************************)
(* config.py: ScreenBindings                                               *)
(***************************************************************************)
\* A validator that keeps every configured binding.
validate_bindings_keep_all(ctx, bindings) == bindings

\* ScreenBindings.validate_bindings: keep the bindings whose action has an
\* entry in the registry of the class being validated.
validate_bindings(ctx, bindings) ==
    SelectSeq(bindings, LAMBDA binding : binding.action \in DOMAIN Registry(ctx))

\* textual.binding.Binding as get_bindings builds it
Binding(key, action, description, show) ==
    [key |-> key, action |-> action, description |-> description, show |-> show]

\* The key expression taken whole, as one component.
KeyComponentsUnsplit(binding) ==
    << IF binding.key.tuple THEN Join(binding.key.parts, ",")
       ELSE binding.key.parts[1] >>

\* _binding.key.split(","): a tuple key is joined with "," first
KeyComponents(binding) ==
    Split(IF binding.key.tuple THEN Join(binding.key.parts, ",")
          ELSE binding.key.parts[1], ",")

\* The state of the generator get_bindings: what it has yielded, and the
\* exception that ended it ("none" while it runs or when it is exhausted).
NewGen == [yielded |-> <<>>, exc |-> "none"]

RECURSIVE YieldKeys(_, _, _, _)
\* the inner loop of get_bindings over the components of one binding
YieldKeys(binding, actions, comps, gen) ==
    IF comps = <<>> THEN gen
    ELSE LET stripped == Strip(Head(comps))
             key == IF PyLenIsOne(stripped) THEN CharacterToKey(stripped)
                    ELSE stripped
         IN  IF stripped = <<>> THEN [gen EXCEPT !.exc = "InvalidBinding"]
             ELSE IF binding.action \notin DOMAIN actions
                  THEN [gen EXCEPT !.exc = "KeyError"]
             ELSE YieldKeys(binding, actions, Tail(comps),
                            [gen EXCEPT !.yielded =
                                Append(@, Binding(key, binding.action,
                                                  actions[binding.action],
                                                  binding.show))])

RECURSIVE GenBindings(_, _, _)
\* the outer loop of get_bindings over self.bindings
GenBindings(bindings, actions, gen) ==
    IF bindings = <<>> THEN gen
    ELSE LET binding == Head(bindings)
         IN  IF binding.key.tuple /\ Len(binding.key.parts) \notin {2, 3}
             THEN [gen EXCEPT !.exc = "BindingError"]
             ELSE LET g == YieldKeys(binding, actions, KeyComponents(binding), gen)
                  IN  IF g.exc # "none" THEN g
                      ELSE GenBindings(Tail(bindings), actions, g)

RECURSIVE DropSeenKeys(_, _)
DropSeenKeys(bindings, seen) ==
    IF bindings = <<>> THEN <<>>
    ELSE IF Head(bindings).key \in seen THEN DropSeenKeys(Tail(bindings), seen)
    ELSE <<Head(bindings)>> \o
         DropSeenKeys(Tail(bindings), seen \cup {Head(bindings).key})

\* A resolver that keeps only the first binding of each key.
get_bindings_dedup(self) ==
    GenBindings(DropSeenKeys(self.bindings, {}), Registry(self.ctx), NewGen)

\* ScreenBindings.get_bindings, run to its end
get_bindings(self) == GenBindings(self.bindings, Registry(self.ctx), NewGen)

(***************************************************************************)
(* config.py: the settings tree                                            *)
(***************************************************************************)
\* A ScreenBindings subclass instance: construction runs validate_bindings.
ScreenBindings(ctx, bindings) ==
    [cls |-> "ScreenBindings", ctx |-> ctx,
     bindings |-> validate_bindings(ctx, bindings)]

\* conf.Settings() with the list cfg configured for every binding set
Settings(cfg) ==
    [cls |-> "Settings",
     dashboard |-> [cls |-> "DashboardSettings",
                    text |-> [cls |-> "str"],
                    text_style |-> [cls |-> "str"],
                    bindings |-> ScreenBindings("dashboard", cfg)],
     workspace |-> [cls |-> "WorkspaceSettings",
                    bindings |-> ScreenBindings("workspace", cfg)],
     bindings |-> ScreenBindings("global", cfg),
     config_dir |-> [cls |-> "Path"],
     theme_dir |-> [cls |-> "Path"],
     config_file |-> [cls |-> "Path"]]

ModelClasses == {"Settings", "DashboardSettings", "WorkspaceSettings",
                 "ScreenBindings"}

\* node.__pydantic_fields__, which only a pydantic model has
PydanticFields(node) ==
    CASE node.cls = "Settings" ->
            {"dashboard", "workspace", "bindings", "config_dir", "theme_dir",
             "config_file"}
      [] node.cls = "DashboardSettings" -> {"text", "text_style", "bindings"}
      [] node.cls = "WorkspaceSettings" -> {"bindings"}
      [] node.cls = "ScreenBindings" -> {"bindings"}

\* getattr(node, name) for a field of a model
GetAttr(node, name) ==
    IF node.cls = "ScreenBindings" THEN [cls |-> "list"] ELSE node[name]

(***************************************************************************)
(* binding_loader.py                                                       *)
(***************************************************************************)
Returned(value) == [exc |-> "none", returned |-> TRUE, value |-> value]
Raised(exc) == [exc |-> exc, returned |-> FALSE, value |-> <<>>]

\* A list() that swallows the generator's exception and returns what the
\* generator had yielded.
ListOfPartial(gen) == Returned(gen.yielded)

\* list(generator): the generator's exception propagates, nothing is returned
ListOf(gen) == IF gen.exc = "none" THEN Returned(gen.yielded) ELSE Raised(gen.exc)

RECURSIVE Walk(_, _)
\* the while loop of include_bindings and what follows it
Walk(tmp_internal_field, fields) ==
    IF fields = <<>>
    THEN IF tmp_internal_field.cls = "ScreenBindings"
         THEN ListOf(get_bindings(tmp_internal_field))
         ELSE Returned(<<>>)
    ELSE IF tmp_internal_field.cls \notin ModelClasses
         THEN Raised("AttributeError")
    ELSE IF ~(Len(Head(fields)) = 1
              /\ Head(fields)[1] \in PydanticFields(tmp_internal_field))
         THEN Returned(<<>>)
    ELSE Walk(GetAttr(tmp_internal_field, Head(fields)[1]), Tail(fields))

\* include_bindings(field) against the settings s of cli.get_settings()
include_bindings(s, f) == Walk(s, Split(f, "."))

\* The dotted paths the model passes to include_bindings
Fields ==
    { <<"bindings">>,
      <<"dashboard", ".", "bindings">>,
      <<"workspace", ".", "bindings">>,
      <<"dashboard">>,
      <<"dashboard", ".", "text">>,
      <<"dashboard", ".", "nope">>,
      <<>>,
      <<"dashboard", ".", ".", "bindings">>,
      <<"config_dir", ".", "nope">>,
      <<"dashboard", ".", "bindings", ".", "bindings">>,
      <<"dashboard", ".", "bindings", ".", "bindings", ".", "nope">> }

\* The binding set a path leads to, when it leads to one
BindingPaths == { <<"bindings">>, <<"dashboard", ".", "bindings">>,
                  <<"workspace", ".", "bindings">> }

ContextOf(f) == CASE f = <<"dashboard", ".", "bindings">> -> "dashboard"
                  [] f = <<"workspace", ".", "bindings">> -> "workspace"
                  [] OTHER -> "global"

(***************************************************************************)
(* SpecBindings: load the settings, then resolve paths                     *)
(***************************************************************************)
NoResult == [exc |-> "none", returned |-> FALSE, value |-> <<>>]

\* cli(): ctx.obj["settings"] = conf.Settings()
LoadSettings ==
    /\ bpc = "start"
    /\ \E cfg \in Configs :
          /\ configured' = cfg
          /\ settings' = Settings(cfg)
    /\ bpc' = "loaded"
    /\ UNCHANGED <<field, result>>
    /\ UNCHANGED avars

\* BINDINGS = binding_loader.include_bindings(field) of a screen or the app
IncludeBindings ==
    /\ bpc \in {"loaded", "resolved"}
    /\ \E f \in Fields :
          /\ field' = f
          /\ result' = include_bindings(settings, f)
    /\ bpc' = "resolved"
    /\ UNCHANGED <<configured, settings>>
    /\ UNCHANGED avars

(***************************************************************************)
(* The application run: tui/app.py and tui/screens/dashboard.py            *)
(***************************************************************************)
Paths == {"/a", "/b"}

\* What a path is on disk.  "repo" is a directory the Git backend opens;
\* "dir" is a directory it does not.
FsKinds == {"missing", "file", "dir", "repo"}

None == "None"

Note(text, severity) == [text |-> text, severity |-> severity]

TablePaths(t) == { r.Path : r \in t }

Range(s) == { s[i] : i \in 1..Len(s) }

\* An upsert that leaves an existing row as it is (INSERT OR IGNORE).
UpsertIgnore(t, p, ts) ==
    IF p \in TablePaths(t) THEN t
    ELSE t \cup {[Path |-> p, last_accessed |-> ts]}

\* INSERT INTO Repositories(Path, last_accessed) VALUES (?, now)
\* ON CONFLICT(Path) DO UPDATE SET last_accessed = now
Upsert(t, p, ts) ==
    IF p \in TablePaths(t)
    THEN { IF r.Path = p THEN [r EXCEPT !.last_accessed = ts] ELSE r : r \in t }
    ELSE t \cup {[Path |-> p, last_accessed |-> ts]}

\* The orders in which the rows of t can be listed
Orders(t) == { s \in [1..Cardinality(t) -> t] :
                 \A i, j \in 1..Cardinality(t) : i # j => s[i] # s[j] }

\* The same query ordered by last_accessed ascending.
SelectPathsAsc(t) ==
    { [i \in 1..Len(s) |-> s[i].Path] :
        s \in { o \in Orders(t) :
                  \A i, j \in 1..Len(o) :
                     i < j => o[i].last_accessed <= o[j].last_accessed } }

\* SELECT Path FROM Repositories ORDER BY last_accessed DESC, then
\* fetchall(): the engine orders rows of equal last_accessed either way
SelectPaths(t) ==
    { [i \in 1..Len(s) |-> s[i].Path] :
        s \in { o \in Orders(t) :
                  \A i, j \in 1..Len(o) :
                     i < j => o[i].last_accessed >= o[j].last_accessed } }

\* execute in place of executemany: only the first collected path goes.
DeleteFirst(t, ps) == { r \in t : ps = <<>> \/ r.Path # ps[1] }

\* DELETE FROM Repositories WHERE Path=? for every collected path
DeleteMany(t, ps) == { r \in t : r.Path \notin Range(ps) }

Down == {"stopped", "exit_1", "crashed"}

\* Thalia.__init__, given a sqlite3.Connection as its signature asks (CREATE
\* TABLE IF NOT EXISTS, exit(1) on a storage error), and Thalia.on_mount,
\* which pushes the dashboard; composing the dashboard starts the listing
\* of the recent repositories.
AppStart ==
    /\ pc \in Down
    /\ IF dbOk
       THEN /\ pc' = "list_query"
            /\ screens' = <<"DashboardScreen">>
       ELSE /\ pc' = "exit_1"
            /\ screens' = <<>>
    /\ notifications' = {}
    /\ escaped' = "none"
    /\ recent' = <<>>
    /\ rows' = <<>>
    /\ idx' = 1
    /\ to_rm' = <<>>
    /\ arg' = None
    /\ dismissed' = None
    /\ task' = "none"
    /\ UNCHANGED <<table, now, fs, dbOk, thread>>
    /\ backend_on' = "none"
    /\ dismissals' = 0
    /\ UNCHANGED <<bar, ctx_obj>>
    /\ UNCHANGED bvars

\* cli(ctx, config, cache_dir), the group callback of the command line:
\* ctx.obj gets "settings" and "config_path", and "cache_dir" only when
\* the --cache-dir option was not given.
Cli ==
    /\ pc \in Down
    /\ \E cache_dir \in {None, "/cache"} :
          ctx_obj' = {"settings", "config_path"}
                        \cup (IF cache_dir = None THEN {"cache_dir"} ELSE {})
    /\ pc' = "cli"
    /\ screens' = <<>>
    /\ notifications' = {}
    /\ escaped' = "none"
    /\ recent' = <<>>
    /\ rows' = <<>>
    /\ idx' = 1
    /\ to_rm' = <<>>
    /\ arg' = None
    /\ dismissed' = None
    /\ dismissals' = 0
    /\ task' = "none"
    /\ backend_on' = "none"
    /\ UNCHANGED <<table, now, fs, dbOk, thread, bar>>
    /\ UNCHANGED bvars

\* tui(ctx), the default command: app.Thalia(ctx.obj["settings"],
\* ctx.obj["cache_dir"]).  The look-up raises KeyError when the key was
\* not set.  Otherwise the cache directory, a Path, is passed as cache_db,
\* and Thalia.__init__ uses it as a connection: "with cache_db" raises
\* TypeError where Path is no context manager (Python 3.13), and
\* cache_db.execute raises AttributeError elsewhere.  __init__ catches
\* OperationalError only.
Tui ==
    /\ pc = "cli"
    /\ IF "cache_dir" \notin ctx_obj
       THEN escaped' = "KeyError"
       ELSE escaped' \in {"AttributeError", "TypeError"}
    /\ pc' = "crashed"
    /\ ctx_obj' = {}
    /\ UNCHANGED <<table, now, fs, dbOk, screens, notifications, recent, rows,
                   idx, to_rm, arg, thread, task, dismissed, dismissals, bar,
                   backend_on>>
    /\ UNCHANGED bvars

\* fetch_recent_repos up to the for statement: the SELECT and fetchall()
ListQuery ==
    /\ pc = "list_query"
    /\ IF dbOk
       THEN /\ rows' \in SelectPaths(table)
            /\ pc' = "list_iter"
       ELSE /\ rows' = <<>>
            /\ pc' = "dashboard"
    /\ idx' = 1
    /\ to_rm' = <<>>
    /\ recent' = <<>>
    /\ UNCHANGED <<table, now, fs, dbOk, screens, notifications, escaped, arg,
                   thread, task, dismissed>>
    /\ backend_on' = "none"
    /\ UNCHANGED <<dismissals, bar, ctx_obj>>
    /\ UNCHANGED bvars

\* The loop without the probe: every existing directory is yielded.
ListStepNoProbe ==
    /\ pc = "list_iter"
    /\ idx <= Len(rows)
    /\ recent' = IF fs[rows[idx]] \in {"dir", "repo"}
                 THEN Append(recent, rows[idx]) ELSE recent
    /\ idx' = idx + 1
    /\ UNCHANGED <<pc, table, now, fs, dbOk, screens, notifications, escaped,
                   rows, arg, thread, task, dismissed, to_rm>>
    /\ UNCHANGED <<dismissals, bar, backend_on, ctx_obj>>
    /\ UNCHANGED bvars

\* one turn of the for loop of fetch_recent_repos
ListStep ==
    /\ pc = "list_iter"
    /\ idx <= Len(rows)
    /\ LET repo == rows[idx]
       IN  IF fs[repo] \in {"dir", "repo"}
           THEN IF fs[repo] = "repo"
                THEN /\ recent' = Append(recent, repo)
                     /\ to_rm' = to_rm
                ELSE /\ to_rm' = Append(to_rm, repo)
                     /\ recent' = recent
           ELSE UNCHANGED <<recent, to_rm>>
    /\ idx' = idx + 1
    /\ UNCHANGED <<pc, table, now, fs, dbOk, screens, notifications, escaped,
                   rows, arg, thread, task, dismissed>>
    /\ backend_on' = IF fs[rows[idx]] \in {"dir", "repo"} THEN "ui" ELSE backend_on
    /\ UNCHANGED <<dismissals, bar, ctx_obj>>
    /\ UNCHANGED bvars

\* fetch_recent_repos after the loop: the batch delete of to_rm
ListFinish ==
    /\ pc = "list_iter"
    /\ idx > Len(rows)
    /\ table' = IF to_rm # <<>> /\ dbOk THEN DeleteMany(table, to_rm) ELSE table
    /\ pc' = "dashboard"
    /\ rows' = <<>>
    /\ idx' = 1
    /\ to_rm' = <<>>
    /\ UNCHANGED <<now, fs, dbOk, screens, notifications, escaped, recent, arg,
                   thread, task, dismissed>>
    /\ UNCHANGED <<dismissals, bar, backend_on, ctx_obj>>
    /\ UNCHANGED bvars

\* The directory the picker shows (DirectoryNavigation.location): the root
\* of the file system, a plain directory in which the user cannot write.
Location == "/"

\* What a path is on disk
Kind(p) == IF p = Location THEN "dir" ELSE fs[p]

Pop(stack) == SubSeq(stack, 1, Len(stack) - 1)

NoThread == [st |-> "idle", target |-> None, received |-> 0]

\* no progress bar: no clone progress modal has been composed, or nothing
\* can touch the one that was
NoBar == [progress |-> 0, by |-> "none"]

\* The storage error ends the action: the warning, and no workspace.
_open_repo_from_obj_blocking(repo_dir, notes, stack) ==
    /\ table' = IF dbOk THEN Upsert(table, repo_dir, now) ELSE table
    /\ notifications' =
          IF dbOk THEN notes
          ELSE notes \cup {Note("Failed to insert into cache", "warning")}
    /\ screens' = IF dbOk THEN Append(stack, "WorkspaceScreen") ELSE stack
    /\ pc' = IF dbOk THEN "workspace" ELSE "dashboard"
    /\ arg' = repo_dir

\* DashboardScreen._open_repo_from_obj(repo, repo_dir), entered with the
\* toasts notes showing and the screen stack stack
_open_repo_from_obj(repo_dir, notes, stack) ==
    /\ table' = IF dbOk THEN Upsert(table, repo_dir, now) ELSE table
    /\ notifications' =
          IF dbOk THEN notes
          ELSE notes \cup {Note("Failed to insert into cache", "warning")}
    /\ screens' = Append(stack, "WorkspaceScreen")
    /\ pc' = "workspace"
    /\ arg' = repo_dir

\* DashboardScreen._open_repo(repo_dir): pygit2 opens a repository and
\* raises GitError for anything else
_open_repo(repo_dir, notes, stack) ==
    IF Kind(repo_dir) = "repo"
    THEN _open_repo_from_obj(repo_dir, notes, stack)
    ELSE /\ notifications' = notes \cup {Note("Unable to open repository", "error")}
         /\ screens' = stack
         /\ pc' = "dashboard"
         /\ arg' = repo_dir
         /\ table' = table

\* action_open_repo up to its await: the directory picker is pushed
ActionOpenRepo ==
    /\ pc = "dashboard"
    /\ pc' = "open_pick"
    /\ screens' = Append(screens, "CustomDirPicker")
    /\ notifications' = {}
    /\ arg' = None
    /\ UNCHANGED <<table, now, fs, dbOk, escaped, recent, rows, idx, to_rm,
                   thread, task, dismissed>>
    /\ backend_on' = "none"
    /\ UNCHANGED <<dismissals, bar, ctx_obj>>
    /\ UNCHANGED bvars

\* What the user can have typed in the Input of the picker
InputValues == {"", "a", "b", "/a", "/b"}

\* pathlib.Path(text): Path("") is Path(".")
PathOf(text) == IF text = "" THEN "." ELSE text

\* Path.is_absolute()
IsAbsolute(p) == p \in {"/", "/a", "/b"}

\* (location / p).resolve(): an absolute p replaces location
JoinResolve(location, p) ==
    CASE IsAbsolute(p) -> p
      [] p = "." -> location
      [] p = "a" -> "/a"
      [] p = "b" -> "/b"

\* CustomDirPicker._select_directory(event): the values it calls dismiss
\* with, in order.  No branch returns after its dismiss.
_select_directory(event, value) ==
    LET input_val == PathOf(value)
    IN  (IF event = "Pressed" /\ value = "" THEN <<Location>> ELSE <<>>)
        \o (IF IsAbsolute(input_val) THEN <<input_val>> ELSE <<>>)
        \o <<JoinResolve(Location, input_val)>>

Resumed(at) == IF at = "open_pick" THEN "open_resume" ELSE "create_resume"

\* The select button of the picker is pressed or its Input submitted:
\* _select_directory runs.  The first dismiss pops the picker and hands
\* its value to the waiting action.  What a further dismiss of the same
\* screen does is the library's business: it is ignored, or it raises
\* (ScreenStackError) and the exception leaves the handler.
SelectDirectory ==
    /\ pc \in {"open_pick", "create_pick"}
    /\ \E event \in {"Submitted", "Pressed"}, value \in InputValues,
          extra \in {"ignored", "raised"} :
          LET calls == _select_directory(event, value)
          IN  /\ dismissals' = Len(calls)
              /\ IF Len(calls) > 1 /\ extra = "raised"
                 THEN /\ pc' = "crashed"
                      /\ escaped' = "ScreenStackError"
                      /\ screens' = <<>>
                      /\ dismissed' = None
                      /\ recent' = <<>>
                 ELSE /\ pc' = Resumed(pc)
                      /\ dismissed' = calls[1]
                      /\ screens' = Pop(screens)
                      /\ UNCHANGED <<escaped, recent>>
    /\ UNCHANGED <<table, now, fs, dbOk, notifications, rows, idx, to_rm, arg,
                   thread, task>>
    /\ UNCHANGED <<bar, backend_on, ctx_obj>>
    /\ UNCHANGED bvars

\* The cancel button of the picker (SelectDirectory): dismiss(None)
PickerCancel ==
    /\ pc \in {"open_pick", "create_pick"}
    /\ pc' = Resumed(pc)
    /\ dismissed' = None
    /\ dismissals' = 1
    /\ screens' = Pop(screens)
    /\ UNCHANGED <<table, now, fs, dbOk, notifications, escaped, recent, rows,
                   idx, to_rm, arg, thread, task>>
    /\ UNCHANGED <<bar, backend_on, ctx_obj>>
    /\ UNCHANGED bvars

\* action_open_repo after its await: the picker was dismissed with
\* repo_dir
OpenPicked ==
    /\ pc = "open_resume"
    /\ IF dismissed = None
       THEN /\ notifications' =
                  notifications \cup {Note("No directory selected, exiting.", "information")}
            /\ pc' = "dashboard"
            /\ arg' = None
            /\ UNCHANGED <<table, screens, backend_on>>
       ELSE /\ _open_repo(dismissed, notifications, screens)
            /\ backend_on' = "ui"
    /\ dismissed' = None
    /\ dismissals' = 0
    /\ UNCHANGED <<now, fs, dbOk, escaped, recent, rows, idx, to_rm, thread, task>>
    /\ UNCHANGED <<bar, ctx_obj>>
    /\ UNCHANGED bvars

\* RecentRepos.open_repo -> RepositoryEntry.action_open_repo: an entry of
\* the list of recent repositories is selected
OpenRecent ==
    /\ pc = "dashboard"
    /\ \E i \in 1..Len(recent) : _open_repo(recent[i], {}, screens)
    /\ UNCHANGED <<now, fs, dbOk, escaped, recent, rows, idx, to_rm, thread,
                   task, dismissed>>
    /\ backend_on' = "ui"
    /\ UNCHANGED <<dismissals, bar, ctx_obj>>
    /\ UNCHANGED bvars

\* action_create_repo up to its await
ActionCreateRepo ==
    /\ pc = "dashboard"
    /\ pc' = "create_pick"
    /\ screens' = Append(screens, "CustomDirPicker")
    /\ notifications' = {}
    /\ arg' = None
    /\ UNCHANGED <<table, now, fs, dbOk, escaped, recent, rows, idx, to_rm,
                   thread, task, dismissed>>
    /\ backend_on' = "none"
    /\ UNCHANGED <<dismissals, bar, ctx_obj>>
    /\ UNCHANGED bvars

\* action_create_repo after its await.  init_repository with NO_REINIT |
\* MKDIR raises for an existing repository and for a file; for a missing
\* path or a plain directory it makes the repository, or raises (GitError,
\* ValueError) when the backend cannot.
CreatePicked ==
    /\ pc = "create_resume"
    /\ \E backendOk \in BOOLEAN :
          IF dismissed = None
          THEN /\ notifications' =
                     notifications \cup {Note("No directory selected, exiting.", "information")}
               /\ pc' = "dashboard"
               /\ arg' = None
               /\ UNCHANGED <<table, fs, screens, backend_on>>
          ELSE /\ backend_on' = "ui"
               /\ IF dismissed # Location /\ Kind(dismissed) \in {"missing", "dir"}
                     /\ backendOk
                  THEN /\ fs' = [fs EXCEPT ![dismissed] = "repo"]
                       /\ _open_repo_from_obj(dismissed, notifications, screens)
                  ELSE /\ notifications' =
                             notifications \cup {Note("Repository creation failed", "error")}
                       /\ pc' = "dashboard"
                       /\ arg' = dismissed
                       /\ UNCHANGED <<table, fs, screens>>
    /\ dismissed' = None
    /\ dismissals' = 0
    /\ UNCHANGED <<now, dbOk, escaped, recent, rows, idx, to_rm, thread, task>>
    /\ UNCHANGED <<bar, ctx_obj>>
    /\ UNCHANGED bvars

\* action_clone_repo up to its first await: the clone modal is pushed
ActionCloneRepo ==
    /\ pc = "dashboard"
    /\ pc' = "clone_modal"
    /\ screens' = Append(screens, "CloneModal")
    /\ notifications' = {}
    /\ arg' = None
    /\ UNCHANGED <<table, now, fs, dbOk, escaped, recent, rows, idx, to_rm,
                   thread, task, dismissed>>
    /\ backend_on' = "none"
    /\ UNCHANGED <<dismissals, bar, ctx_obj>>
    /\ UNCHANGED bvars

\* CloneModal.action_cancel, then action_clone_repo returns on res is None
CloneModalCancel ==
    /\ pc = "clone_modal"
    /\ notifications' = notifications \cup {Note("Clone operation cancelled.", "information")}
    /\ screens' = Pop(screens)
    /\ pc' = "dashboard"
    /\ UNCHANGED <<table, now, fs, dbOk, escaped, recent, rows, idx, to_rm, arg,
                   thread, task, dismissed>>
    /\ UNCHANGED <<dismissals, bar, backend_on, ctx_obj>>
    /\ UNCHANGED bvars

\* CloneModal.on_confirm.  check_dir_validity refuses a target that exists
\* and is not an empty directory; the modal then stays.  Otherwise the
\* modal is dismissed with (url, target) and action_clone_repo goes on to
\* push the progress modal, whose on_mount creates clone_task and starts
\* the worker thread.
CloneModalConfirm ==
    /\ pc = "clone_modal"
    /\ \E target \in Paths, empty \in BOOLEAN :
          IF fs[target] = "missing" \/ (fs[target] = "dir" /\ empty)
          THEN /\ notifications' = notifications \cup {Note("Cloning", "information")}
               /\ screens' = Append(Pop(screens), "CloneProgressModal")
               /\ pc' = "cloning"
               /\ arg' = target
               /\ thread' = [st |-> "running", target |-> target, received |-> 0]
               /\ task' = "pending"
               /\ bar' = [progress |-> 0, by |-> "ui"]
               /\ backend_on' = "worker"
          ELSE /\ notifications' = notifications \cup {Note("Invalid Directory", "warning")}
               /\ UNCHANGED <<screens, pc, arg, thread, task, bar, backend_on>>
    /\ UNCHANGED <<table, now, fs, dbOk, escaped, recent, rows, idx, to_rm,
                   dismissed>>
    /\ UNCHANGED <<dismissals, ctx_obj>>
    /\ UNCHANGED bvars

\* pygit2.clone_repository ends in the worker thread: with the repository,
\* with GitError, or with another exception.  What it ends with is kept
\* only while clone_task waits for it; nothing reads it otherwise.
ThreadFinish ==
    /\ thread.st = "running"
    /\ \E out \in {"ok", "GitError", "other"} :
          /\ thread' = IF pc = "cloning" /\ task = "pending"
                       THEN [thread EXCEPT !.st = out] ELSE NoThread
          /\ fs' = IF out = "ok" THEN [fs EXCEPT ![thread.target] = "repo"] ELSE fs
    /\ bar' = IF pc = "cloning" THEN bar ELSE NoBar
    /\ UNCHANGED <<pc, table, now, dbOk, screens, notifications, escaped, recent,
                   rows, idx, to_rm, arg, task, dismissed>>
    /\ UNCHANGED <<dismissals, backend_on, ctx_obj>>
    /\ UNCHANGED bvars

\* CustomCallBack.transfer_progress, which pygit2 calls in the worker
\* thread as objects arrive: it looks the ProgressBar of the modal up and
\* updates it there and then.  Once the modal is dismissed the look-up
\* finds the widget of the removed screen, or raises NoMatches, and
\* pygit2 ends the clone with the exception of the callback.
TransferProgress ==
    /\ thread.st = "running"
    /\ thread.received < MaxObjects
    /\ \E found \in BOOLEAN :
          /\ pc = "cloning" => found
          /\ IF found
             THEN /\ thread' = [thread EXCEPT !.received = thread.received + 1]
                  /\ bar' = [progress |-> thread.received + 1, by |-> "worker"]
             ELSE /\ thread' = NoThread
                  /\ bar' = NoBar
    /\ UNCHANGED <<pc, table, now, fs, dbOk, screens, notifications, escaped,
                   recent, rows, idx, to_rm, arg, task, dismissed>>
    /\ UNCHANGED <<dismissals, backend_on, ctx_obj>>
    /\ UNCHANGED bvars

\* clone_task wakes up with what the thread produced
TaskStep ==
    /\ pc = "cloning"
    /\ task = "pending"
    /\ thread.st \in {"ok", "GitError", "other"}
    /\ task' = thread.st
    /\ UNCHANGED <<pc, table, now, fs, dbOk, screens, notifications, escaped,
                   recent, rows, idx, to_rm, arg, thread, dismissed>>
    /\ UNCHANGED <<dismissals, bar, backend_on, ctx_obj>>
    /\ UNCHANGED bvars

\* CloneProgressModal.handle_button: clone_task.cancel(), which does
\* nothing to a task that is done
HandleButton ==
    /\ pc = "cloning"
    /\ task' = IF task = "pending" THEN "cancelled" ELSE task
    /\ UNCHANGED <<pc, table, now, fs, dbOk, screens, notifications, escaped,
                   recent, rows, idx, to_rm, arg, thread, dismissed>>
    /\ UNCHANGED <<dismissals, bar, backend_on, ctx_obj>>
    /\ UNCHANGED bvars

\* One except clause for cancellation and for GitError.
CloneNoteSame(outcome) ==
    IF outcome \in {"cancelled", "GitError"}
    THEN {Note("Clone failed", "error")} ELSE {}

\* the except clauses of CloneProgressModal.on_mount
CloneNote(outcome) ==
    CASE outcome = "cancelled" -> {Note("Clone operation was cancelled.", "warning")}
      [] outcome = "GitError" -> {Note("Clone failed", "error")}
      [] OTHER -> {}

\* action_clone_repo: "if not repo: return", else the target is opened
CloneResult(repo, target) == IF repo = None THEN None ELSE target

\* CloneProgressModal.on_mount after "await self.clone_task".  Another
\* exception than the two caught reaches the finally clause with repo
\* unbound: the worker ends with an exception and the application with it.
OnMountResume ==
    /\ pc = "cloning"
    /\ task \in {"ok", "GitError", "other", "cancelled"}
    /\ IF task = "other"
       THEN /\ escaped' = "UnboundLocalError"
            /\ pc' = "crashed"
            /\ screens' = <<>>
            /\ recent' = <<>>
            /\ arg' = None
            /\ dismissals' = 0
            /\ UNCHANGED <<notifications, dismissed>>
       ELSE /\ notifications' = notifications \cup CloneNote(task)
            /\ dismissed' = IF task = "ok" THEN arg ELSE None
            /\ dismissals' = 1
            /\ screens' = Pop(screens)
            /\ pc' = "clone_resume"
            /\ UNCHANGED <<escaped, recent, arg>>
    /\ thread' = IF thread.st = "running" THEN thread ELSE NoThread
    /\ bar' = IF thread.st = "running" THEN bar ELSE NoBar
    /\ UNCHANGED <<table, now, fs, dbOk, rows, idx, to_rm, task>>
    /\ UNCHANGED <<backend_on, ctx_obj>>
    /\ UNCHANGED bvars

\* action_clone_repo after the progress modal was dismissed
CloneResume ==
    /\ pc = "clone_resume"
    /\ IF CloneResult(dismissed, arg) = None
       THEN /\ pc' = "dashboard"
            /\ UNCHANGED <<table, notifications, screens, arg>>
       ELSE _open_repo_from_obj(CloneResult(dismissed, arg), notifications, screens)
    /\ task' = "none"
    /\ dismissed' = None
    /\ UNCHANGED <<now, fs, dbOk, escaped, recent, rows, idx, to_rm, thread>>
    /\ dismissals' = 0
    /\ UNCHANGED <<bar, backend_on, ctx_obj>>
    /\ UNCHANGED bvars

\* the global binding "quit"
Quit ==
    /\ pc \in {"dashboard", "workspace"}
    /\ pc' = "stopped"
    /\ screens' = <<>>
    /\ notifications' = {}
    /\ recent' = <<>>
    /\ arg' = None
    /\ UNCHANGED <<table, now, fs, dbOk, escaped, rows, idx, to_rm, thread, task,
                   dismissed>>
    /\ backend_on' = "none"
    /\ UNCHANGED <<dismissals, bar, ctx_obj>>
    /\ UNCHANGED bvars

(***************************************************************************)
(* The environment                                                         *)
(***************************************************************************)
\* something outside the program changes a path on disk
FsChange ==
    /\ \E p \in Paths, k \in FsKinds : fs' = [fs EXCEPT ![p] = k]
    /\ UNCHANGED <<pc, table, now, dbOk, screens, notifications, escaped, recent,
                   rows, idx, to_rm, arg, thread, task, dismissed>>
    /\ UNCHANGED <<dismissals, bar, backend_on, ctx_obj>>
    /\ UNCHANGED bvars

\* a second passes
Tick ==
    /\ now < MaxTime
    /\ now' = now + 1
    /\ UNCHANGED <<pc, table, fs, dbOk, screens, notifications, escaped, recent,
                   rows, idx, to_rm, arg, thread, task, dismissed>>
    /\ UNCHANGED <<dismissals, bar, backend_on, ctx_obj>>
    /\ UNCHANGED bvars

\* the storage engine becomes unavailable (locked, read-only) or recovers
DbToggle ==
    /\ dbOk' = ~dbOk
    /\ UNCHANGED <<pc, table, now, fs, screens, notifications, escaped, recent,
                   rows, idx, to_rm, arg, thread, task, dismissed>>
    /\ UNCHANGED <<dismissals, bar, backend_on, ctx_obj>>
    /\ UNCHANGED bvars

(***************************************************************************)
(* Specifications                                                          *)
(***************************************************************************)
BindingsIdle ==
    /\ bpc = "start"
    /\ configured = <<>>
    /\ settings = Settings(<<>>)
    /\ field = <<>>
    /\ result = NoResult

AppIdle ==
    /\ pc = "stopped"
    /\ table = {}
    /\ now = 0
    /\ fs = [p \in Paths |-> "missing"]
    /\ dbOk = TRUE
    /\ screens = <<>>
    /\ notifications = {}
    /\ escaped = "none"
    /\ recent = <<>>
    /\ rows = <<>>
    /\ idx = 1
    /\ to_rm = <<>>
    /\ arg = None
    /\ thread = NoThread
    /\ task = "none"
    /\ dismissed = None
    /\ dismissals = 0
    /\ bar = NoBar
    /\ backend_on = "none"
    /\ ctx_obj = {}

Init == BindingsIdle /\ AppIdle

Next ==
    \/ Cli
    \/ Tui
    \/ AppStart
    \/ ListQuery
    \/ ListStep
    \/ ListFinish
    \/ ActionOpenRepo
    \/ SelectDirectory
    \/ PickerCancel
    \/ OpenPicked
    \/ OpenRecent
    \/ ActionCreateRepo
    \/ CreatePicked
    \/ ActionCloneRepo
    \/ CloneModalCancel
    \/ CloneModalConfirm
    \/ ThreadFinish
    \/ TransferProgress
    \/ TaskStep
    \/ HandleButton
    \/ OnMountResume
    \/ CloneResume
    \/ Quit
    \/ FsChange
    \/ Tick
    \/ DbToggle

Spec == Init /\ [][Next]_vars

NextBindings == LoadSettings \/ IncludeBindings

SpecBindings == Init /\ [][NextBindings]_vars

(***************************************************************************)
(* Claims about the recent-repository cache and the dashboard (Spec)       *)
(***************************************************************************)
LastAccessed(p) == (CHOOSE r \in table : r.Path = p).last_accessed

\* The rows the listing in progress looked at and found not to be an
\* existing directory: neither yielded nor collected for deletion.
SkippedByListing == Range(rows) \ (Range(recent) \cup Range(to_rm))

\* C1: when a listing that yielded valid repositories completes with the
\* storage available, no path it found missing (or not a directory) still
\* has a row in Repositories.
C1_MissingPathPruned ==
    [][(pc = "list_iter" /\ pc' = "dashboard" /\ dbOk /\ recent # <<>>)
          => \A p \in SkippedByListing : p \notin TablePaths(table')]_vars

\* A step of _open_repo_from_obj whose upsert the storage accepted
RecordStep == pc # "workspace" /\ pc' = "workspace" /\ dbOk

\* C2: Repositories never holds two rows of one path, and a successful
\* record of a path, cached before or not, raises nothing and leaves that
\* path's single row with last_accessed equal to the time of the call.
C2_UpsertRefreshes ==
    [][/\ \A r1, r2 \in table' : r1.Path = r2.Path => r1 = r2
       /\ RecordStep =>
            /\ escaped' = "none"
            /\ { r \in table' : r.Path = arg' }
                  = {[Path |-> arg', last_accessed |-> now]}
            /\ { r \in table' : r.Path # arg' } = { r \in table : r.Path # arg' }
      ]_vars

\* C2 witness: a path that the start-up listing showed (so it had a row)
\* has been opened again later, and its row carries the later time.
C2_Witness ==
    /\ pc = "workspace"
    /\ dbOk
    /\ arg \in Range(recent)
    /\ now > 0
    /\ [Path |-> arg, last_accessed |-> now] \in table
    /\ Cardinality(table) = 2

\* C3: on the dashboard the listed paths are rows of the table as it is
\* now, in descending order of their last_accessed.
C3_ListedMostRecentFirst ==
    pc = "dashboard" =>
       /\ Range(recent) \subseteq TablePaths(table)
       /\ \A i, j \in 1..Len(recent) :
             i < j => LastAccessed(recent[i]) >= LastAccessed(recent[j])

\* C3 witness: two repositories are listed, the more recently opened first.
C3_Witness ==
    /\ pc = "dashboard"
    /\ Len(recent) = 2
    /\ LastAccessed(recent[1]) > LastAccessed(recent[2])

HasWorkspace(stack) == "WorkspaceScreen" \in Range(stack)

\* A failed open or init: the path picked is not a repository (open), or
\* no repository was made (init).  The error toast shows, no row changes,
\* no workspace screen is pushed, nothing escapes.
OpenInitFailureHandled ==
    /\ (pc = "open_resume" /\ arg' # None /\ Kind(arg') # "repo")
         => /\ Note("Unable to open repository", "error") \in notifications'
            /\ table' = table
            /\ pc' = "dashboard"
            /\ ~HasWorkspace(screens')
            /\ escaped' = "none"
    /\ (pc = "dashboard" /\ pc' = "workspace") => Kind(arg') = "repo"
    /\ (pc = "create_resume" /\ arg' # None /\ fs' = fs)
         => /\ Note("Repository creation failed", "error") \in notifications'
            /\ table' = table
            /\ pc' = "dashboard"
            /\ ~HasWorkspace(screens')
            /\ escaped' = "none"

\* on_mount handles a clone_task that ended with one of failures, and
\* action_clone_repo then returns: the error toast shows, the modal is
\* dismissed with no repository, no row changes, no workspace screen is
\* pushed, nothing escapes.
CloneFailureHandled(failures) ==
    /\ (pc = "cloning" /\ pc' # "cloning" /\ task \in failures)
         => /\ Note("Clone failed", "error") \in notifications'
            /\ table' = table
            /\ pc' = "clone_resume"
            /\ dismissed' = None
            /\ ~HasWorkspace(screens')
            /\ escaped' = "none"
    /\ (pc = "clone_resume" /\ task \in failures /\ pc' # pc)
         => /\ table' = table
            /\ pc' = "dashboard"
            /\ ~HasWorkspace(screens')
            /\ escaped' = "none"

\* C9: whenever a Git backend operation fails (open, init, or a clone that
\* ends with GitError or with any other exception of the backend), the
\* user gets the error toast, no row is inserted or refreshed, no
\* workspace screen is pushed and no exception escapes.
C9_BackendFailureNotCompleted ==
    [][OpenInitFailureHandled /\ CloneFailureHandled({"GitError", "other"})]_vars

\* C9, the part that holds: the same for open, init, and a clone that ends
\* with GitError.
C9_GitErrorNotCompleted ==
    [][OpenInitFailureHandled /\ CloneFailureHandled({"GitError"})]_vars

\* C9_GitErrorNotCompleted is not vacuous: back on the dashboard after a
\* clone that failed with GitError, the error toast showing, no row for
\* the target.
C9_Witness ==
    /\ pc = "dashboard"
    /\ Note("Clone failed", "error") \in notifications
    /\ arg \in Paths
    /\ arg \notin TablePaths(table)
    /\ screens = <<"DashboardScreen">>
    /\ escaped = "none"

CancelNote == Note("Clone operation was cancelled.", "warning")

\* C10: when on_mount has handled a cancelled clone, the cancellation
\* toast is showing and the clone-failed toast is not, the modal was
\* dismissed with no repository, and the flow returns to the dashboard
\* with no row changed and no workspace screen; a clone that succeeded or
\* failed shows no cancellation toast.
C10_CancelledIsDistinct ==
    [][/\ (pc' = "clone_resume" /\ task' = "cancelled")
            => /\ CancelNote \in notifications'
               /\ Note("Clone failed", "error") \notin notifications'
               /\ dismissed' = None
               /\ "CloneProgressModal" \notin Range(screens')
               /\ table' = table
               /\ escaped' = "none"
       /\ (pc' = "clone_resume" /\ task' # "cancelled")
            => CancelNote \notin notifications'
       /\ (pc = "clone_resume" /\ task = "cancelled" /\ pc' # pc)
            => /\ pc' = "dashboard"
               /\ table' = table
               /\ ~HasWorkspace(screens')
      ]_vars

\* C10 witness: back on the dashboard after a cancelled clone whose thread
\* went on to write the repository: the target is a repository on disk,
\* the cancellation toast is showing, and the target has no row.
C10_Witness ==
    /\ pc = "dashboard"
    /\ CancelNote \in notifications
    /\ arg \in Paths
    /\ fs[arg] = "repo"
    /\ arg \notin TablePaths(table)
    /\ screens = <<"DashboardScreen">>

\* C11: once the cancellation of a clone has been reported to the user,
\* the worker thread of that clone does no further work: it receives no
\* more objects (no progress callback updates the bar), and when it ends
\* it has written nothing to the target directory.
C11_CancelUnwindsClone ==
    [][(CancelNote \in notifications /\ thread.st = "running")
          => \/ thread' = thread
             \/ (thread'.st # "running" /\ fs' = fs)]_vars

\* C12: every update of the progress bar is made on the UI task, and on a
\* modal that is still shown.
C12_ProgressOnUiTask ==
    [][(bar' # bar /\ bar' # NoBar)
          => (bar'.by = "ui" /\ pc' = "cloning")]_vars

\* C13: no Git backend call (repository open, init, clone, or a validity
\* probe of the listing of recent repositories) is executed by the UI
\* task: each runs on a background worker.
C13_BackendOffUiTask == backend_on # "ui"

\* A step in which the UI task has a repository in hand: the directory
\* picked opened as one, init made one, the clone modal handed one over,
\* or an entry of the recent list opened.
OpenedStep ==
    \/ pc = "open_resume" /\ pc' # pc /\ dismissed # None /\ Kind(dismissed) = "repo"
    \/ pc = "create_resume" /\ pc' # pc /\ fs' # fs
    \/ pc = "clone_resume" /\ pc' # pc /\ dismissed # None
    \/ pc = "dashboard" /\ pc' = "workspace"

CacheWarning == Note("Failed to insert into cache", "warning")

\* C14: whenever a repository has been opened, created or cloned, the
\* workspace screen is pushed on top of the dashboard and nothing escapes,
\* whether the upsert succeeds or the storage raises; when it raises, the
\* warning toast is shown and no row changes, and when it succeeds there
\* is no warning.
C14_UpsertFailureIsWarning ==
    [][OpenedStep =>
          /\ pc' = "workspace"
          /\ screens' = Append(screens, "WorkspaceScreen")
          /\ escaped' = "none"
          /\ dbOk => CacheWarning \notin notifications'
          /\ ~dbOk => (CacheWarning \in notifications' /\ table' = table)
      ]_vars

\* C14 witness: in the workspace of a repository just made by init, the
\* warning showing and the repository without a row.
C14_Witness ==
    /\ pc = "workspace"
    /\ screens = <<"DashboardScreen", "WorkspaceScreen">>
    /\ CacheWarning \in notifications
    /\ arg \in Paths
    /\ fs[arg] = "repo"
    /\ arg \notin TablePaths(table)
    /\ backend_on = "ui"

\* C15: while the listing is still going through the rows no row is
\* deleted; the step that ends the listing deletes, in that one step,
\* every path the listing collected and nothing else (no row of a yielded
\* path, no other row), or, when the storage raises, deletes nothing and
\* lets nothing escape; the yielded paths are all still listed.
C15_PruneBatchedAfterListing ==
    [][/\ (pc = "list_iter" /\ pc' = "list_iter") => table' = table
       /\ (pc = "list_iter" /\ pc' = "dashboard") =>
             /\ idx > Len(rows)
             /\ dbOk => TablePaths(table') = TablePaths(table) \ Range(to_rm)
             /\ ~dbOk => table' = table
             /\ table' \subseteq table
             /\ Range(recent) \cap Range(to_rm) = {}
             /\ Range(recent) \cap TablePaths(table) \subseteq TablePaths(table')
             /\ recent' = recent
             /\ escaped' = "none"
      ]_vars

\* C15 witness: the listing has gone through both rows with both still
\* in the table, the storage available: one path was yielded and the
\* other collected, and the batch delete is the next step.
C15_Witness ==
    /\ pc = "list_iter"
    /\ idx > Len(rows)
    /\ Len(recent) = 1
    /\ Len(to_rm) = 1
    /\ Range(rows) \subseteq TablePaths(table)
    /\ dbOk

\* C16: started from the command line, with --cache-dir given or not, the
\* program either reaches the interactive UI (the dashboard is pushed and
\* lists the recent repositories) or, when the cache store cannot be
\* initialized, exits with code 1; no exception ends the start-up.
C16_CliStartsOrExits ==
    [][(pc = "cli" /\ pc' # "cli")
          => /\ escaped' = "none"
             /\ pc' = IF dbOk THEN "list_query" ELSE "exit_1"]_vars

\* C17: a path is yielded by the listing only in a step in which it is,
\* on disk, a directory the Git backend opens; a row whose path is a
\* directory the backend does not open is not yielded but collected, and
\* when the listing ends (the storage accepting the delete) no collected
\* path is among the yielded ones or has a row left.
C17_YieldedAreRepositories ==
    [][/\ (pc = "list_iter" /\ recent' # recent)
            => /\ recent' = Append(recent, rows[idx])
               /\ fs[rows[idx]] = "repo"
       /\ (pc = "list_iter" /\ idx' = idx + 1 /\ fs[rows[idx]] = "dir")
            => /\ recent' = recent
               /\ to_rm' = Append(to_rm, rows[idx])
       /\ (pc = "list_iter" /\ pc' = "dashboard" /\ dbOk)
            => \A p \in Range(to_rm) :
                  p \notin Range(recent') /\ p \notin TablePaths(table')
      ]_vars

\* C17 witness: a listing has yielded one path, a repository, and
\* collected the other, a directory that is no repository and whose row
\* is still there for the batch delete.
C17_Witness ==
    /\ pc = "list_iter"
    /\ \E p, q \in Paths :
          /\ recent = <<p>>
          /\ to_rm = <<q>>
          /\ fs[p] = "repo"
          /\ fs[q] = "dir"
          /\ q \in TablePaths(table)

\* C18: the handler that ends a showing of the directory picker, for
\* whatever was typed and whichever of button and submit, and the on_mount
\* that ends a showing of the clone progress modal, for whatever the clone
\* ended with, makes exactly one dismiss call, and no exception leaves it.
C18_OneDismissPerModal ==
    [][(pc \in {"open_pick", "create_pick", "cloning"} /\ pc' # pc)
          => (dismissals' = 1 /\ escaped' = "none")]_vars

(***************************************************************************)
(* Claims about the binding resolver (SpecBindings)                        *)
(***************************************************************************)
\* The dotted paths of Fields that are present in the settings tree
PresentPaths ==
    { <<"bindings">>,
      <<"dashboard", ".", "bindings">>,
      <<"workspace", ".", "bindings">>,
      <<"dashboard">>,
      <<"dashboard", ".", "text">>,
      <<"dashboard", ".", "bindings", ".", "bindings">> }

\* C4: include_bindings returns an empty list, and raises nothing, for
\* every dotted path that is not present in the settings tree.
C4_AbsentPathEmpty ==
    (bpc = "resolved" /\ field \notin PresentPaths) => result = Returned(<<>>)

\* The alternates of a configured key: the identifiers of an alternative
\* set, or the comma-separated components of a chord
Alternates(b) ==
    IF b.key.tuple THEN b.key.parts ELSE Split(b.key.parts[1], ",")

EmptyAfterTrim(b) ==
    \E i \in 1..Len(Alternates(b)) : Strip(Alternates(b)[i]) = <<>>

\* The registry of the binding set the resolved path leads to
TargetRegistry == Registry(ContextOf(field))

Registered(b) == b.action \in DOMAIN TargetRegistry

ResolvedSet == bpc = "resolved" /\ field \in BindingPaths

\* C5 as stated: a configured BindingSpec with a key that is empty after
\* trimming makes the resolution of its set raise InvalidBinding, and
\* nothing is returned.
C5_EmptyKeyAlwaysRaises ==
    (ResolvedSet /\ \E i \in 1..Len(configured) : EmptyAfterTrim(configured[i]))
       => (result.exc = "InvalidBinding" /\ ~result.returned)

\* C5 amended: a configured BindingSpec whose action is in the registry of
\* its set and whose key is empty after trimming makes the resolution of
\* the set raise InvalidBinding, and nothing is returned.
C5_RegisteredEmptyKeyRaises ==
    (ResolvedSet /\ \E i \in 1..Len(configured) :
                       Registered(configured[i]) /\ EmptyAfterTrim(configured[i]))
       => (result.exc = "InvalidBinding" /\ ~result.returned)

\* C5 witness: a valid registered binding comes first, then a registered
\* one with an empty alternate after a valid alternate: the generator had
\* yielded bindings when it raised, and the caller got none of them.
C5_Witness ==
    /\ ResolvedSet
    /\ Len(configured) = 2
    /\ Registered(configured[1]) /\ ~EmptyAfterTrim(configured[1])
    /\ Registered(configured[2]) /\ EmptyAfterTrim(configured[2])
    /\ Strip(Alternates(configured[2])[1]) # <<>>
    /\ result.exc = "InvalidBinding"
    /\ ~result.returned

\* C6: resolving a binding set never fails on an unregistered action; the
\* actions of the list returned are those of the configured bindings that
\* the set's registry holds, each with the registry's description.
C6_OnlyRegisteredActions ==
    ResolvedSet =>
       /\ result.exc # "KeyError"
       /\ result.returned =>
            /\ \A k \in 1..Len(result.value) :
                  /\ result.value[k].action \in DOMAIN TargetRegistry
                  /\ result.value[k].description
                        = TargetRegistry[result.value[k].action]
            /\ { result.value[k].action : k \in 1..Len(result.value) }
                  = { configured[i].action :
                        i \in { n \in 1..Len(configured) : Registered(configured[n]) } }

\* C6 witness: the dashboard set holds a binding of the global action
\* "quit" and one of "open_repo"; only the latter is resolved.
C6_Witness ==
    /\ bpc = "resolved"
    /\ field = <<"dashboard", ".", "bindings">>
    /\ Len(configured) = 2
    /\ configured[1].action = "quit"
    /\ configured[2].action = "open_repo"
    /\ result.returned
    /\ result.value # <<>>
    /\ \A k \in 1..Len(result.value) : result.value[k].action = "open_repo"

\* The configured bindings that the target registry keeps, in order
Survivors == SelectSeq(configured, Registered)

\* The key a trimmed alternate resolves to
CanonKey(k) == IF PyLenIsOne(k) THEN CharacterToKey(k) ELSE k

RECURSIVE Offset(_, _)
\* The number of alternates of the bindings before the k-th of surv
Offset(surv, k) ==
    IF k <= 1 THEN 0
    ELSE Offset(surv, k - 1) + Len(Alternates(surv[k - 1]))

\* C7: in a returned list every surviving BindingSpec has exactly one
\* entry per alternate of its key, in the order of the alternates, each
\* with the alternate's key and the spec's action, description and show.
C7_OneBindingPerAlternate ==
    (ResolvedSet /\ result.returned) =>
       /\ Len(result.value) = Offset(Survivors, Len(Survivors) + 1)
       /\ \A k \in 1..Len(Survivors) :
             \A i \in 1..Len(Alternates(Survivors[k])) :
                result.value[Offset(Survivors, k) + i]
                   = Binding(CanonKey(Strip(Alternates(Survivors[k])[i])),
                             Survivors[k].action,
                             TargetRegistry[Survivors[k].action],
                             Survivors[k].show)

\* C7 witness: key=("q", "ctrl+c") with action "quit" resolves to exactly
\* the two bindings "q" and "ctrl+c".
C7_Witness ==
    /\ bpc = "resolved"
    /\ field = <<"bindings">>
    /\ configured = << [key |-> [tuple |-> TRUE,
                                 parts |-> << <<"q">>, <<"ctrl", "+", "c">> >>],
                        action |-> "quit", show |-> TRUE] >>
    /\ result.returned
    /\ result.value = << Binding(<<"q">>, "quit", "Quit the app", TRUE),
                         Binding(<<"ctrl", "+", "c">>, "quit", "Quit the app", TRUE) >>

\* The entries of out that carry the action and show flag of b
EntriesOf(out, b) ==
    { k \in 1..Len(out) : out[k].action = b.action /\ out[k].show = b.show }

\* C8: in a returned list the entries follow the configured order of the
\* surviving specs, and a spec whose key another spec also has is still
\* resolved: for survivors i before j, an entry of i comes before an entry
\* of j, and the list is as long as the survivors' alternates together.
C8_OrderKeptNoDedup ==
    (ResolvedSet /\ result.returned) =>
       /\ Len(result.value) = Offset(Survivors, Len(Survivors) + 1)
       /\ \A i, j \in 1..Len(Survivors) :
             i < j =>
                \E a \in EntriesOf(result.value, Survivors[i]),
                   b \in EntriesOf(result.value, Survivors[j]) : a < b

\* C8 witness: two registered specs of the same key that differ in show;
\* both are resolved, the first configured first.
C8_Witness ==
    /\ ResolvedSet
    /\ result.returned
    /\ Len(configured) = 2
    /\ Len(Survivors) = 2
    /\ configured[1].key = configured[2].key
    /\ configured[1].show /\ ~configured[2].show
    /\ Len(result.value) = 2 * Len(Alternates(configured[1]))
    /\ result.value[1].show
    /\ ~result.value[Len(result.value)].show
    /\ result.value[1].key = result.value[Len(Alternates(configured[1])) + 1].key

====
